---- MODULE Spec2Model ----
(***************************************************************************)
(* Model of sht4x_trinkey_logger.py: identification of the candidate       *)
(* ports, header creation, start of streaming, the polling loop of         *)
(* log_sensor_data and the closing of the serial ports in main's finally.  *)
(*                                                                         *)
(* Text is a sequence of one-character strings, except that a serial       *)
(* number inside a data line is one atom.  A parsed float is the record    *)
(* [neg, whole, frac] of its sign, integer part and fraction digits.       *)
(* The wall clock is discrete, in units of one second.                     *)
(***************************************************************************)
EXTENDS Integers, Sequences, FiniteSets, TLC

VARIABLES
    pc,               \* position of main / log_sensor_data
    k,                \* loop index of the for loop at pc (1-based)
    adafruit_ports,   \* the candidate ports, in the order of comports()
    serial_handles,   \* list of [port, serial_number]
    handle,           \* port -> "none" | "failed" | "open" | "closed"
    closes,           \* port -> number of ser.close() calls made
    color,            \* port -> label set by setDeviceColorBySerialNumber
    header,           \* the header list
    file,             \* the rows of the CSV file, the header row first
    flushed,          \* number of rows of file known to be flushed
    buf,              \* port -> number of lines waiting in its input buffer
    now,              \* the wall clock
    last_update_time, \* log_sensor_data's local
    prev_update_time, \* the time at which the tick before this one started
    current_time,     \* log_sensor_data's local
    exc,              \* the exception in flight or escaped: [kind, at]
    sent,             \* port -> command bytes written to the device
    tickNo,           \* number of ticks started
    tickRows,         \* rows written during the tick in flight
    outcome,          \* port -> what its read gave in the tick in flight
    taken,            \* port -> lines read from its buffer in that tick
    line_read,        \* port -> the line it read in that tick, <<>> if none
    lines_sent,       \* lines the devices produced so far
    cancelAt          \* the pc where KeyboardInterrupt arrived, or NoCancel

vars == <<pc, k, adafruit_ports, serial_handles, handle, closes, color, header,
          file, flushed, buf, now, last_update_time, prev_update_time,
          current_time, exc, sent, tickNo, tickRows, outcome, taken,
          line_read, lines_sent, cancelAt>>

----------------------------------------------------------------------------
(* Bounds of the model *)

MaxPorts == 2
MaxSent == 2
MaxTime == 2

(* Configuration *)

SENSOR_READ_INTERVAL == 1

serial_number_to_color ==
    [s \in {"0xEFCF86D7", "0xF030D05B", "0xF030D0CF"} |->
        CASE s = "0xEFCF86D7" -> "yellow"
          [] s = "0xF030D05B" -> "blue"
          [] s = "0xF030D0CF" -> "red"]

----------------------------------------------------------------------------
(* Text *)

\* an empty cell of a row
None == [empty |-> TRUE]

Digits == {"0", "1", "2", "3", "4", "5", "6", "7", "8", "9"}

DigitVal(c) ==
    CASE c = "0" -> 0 [] c = "1" -> 1 [] c = "2" -> 2 [] c = "3" -> 3
      [] c = "4" -> 4 [] c = "5" -> 5 [] c = "6" -> 6 [] c = "7" -> 7
      [] c = "8" -> 8 [] c = "9" -> 9

Whitespace == {" ", "\n"}

RECURSIVE LStrip(_)
LStrip(t) ==
    IF t # <<>> /\ Head(t) \in Whitespace THEN LStrip(Tail(t)) ELSE t

RECURSIVE RStrip(_)
RStrip(t) ==
    IF t # <<>> /\ t[Len(t)] \in Whitespace
    THEN RStrip(SubSeq(t, 1, Len(t) - 1))
    ELSE t

\* str.strip()
Strip(t) == RStrip(LStrip(t))

\* str.split(sep): the list of the pieces between the separators
RECURSIVE SplitFrom(_, _, _)
SplitFrom(t, sep, cur) ==
    IF t = <<>> THEN <<cur>>
    ELSE IF Head(t) = sep
         THEN <<cur>> \o SplitFrom(Tail(t), sep, <<>>)
         ELSE SplitFrom(Tail(t), sep, Append(cur, Head(t)))

Split(t, sep) == SplitFrom(t, sep, <<>>)

AllDigits(t) == \A n \in 1..Len(t) : t[n] \in Digits

RECURSIVE DecimalValue(_)
DecimalValue(t) ==
    IF t = <<>> THEN 0
    ELSE 10 * DecimalValue(SubSeq(t, 1, Len(t) - 1)) + DigitVal(t[Len(t)])

Unsigned(t) == IF t # <<>> /\ Head(t) \in {"+", "-"} THEN Tail(t) ELSE t

IsNegative(t) == t # <<>> /\ Head(t) = "-"

\* int(text) succeeds
IntOk(t) ==
    LET u == Unsigned(Strip(t)) IN u # <<>> /\ AllDigits(u)

\* int(text)
IntValue(t) ==
    LET s == Strip(t)
        v == DecimalValue(Unsigned(s))
    IN IF IsNegative(s) THEN 0 - v ELSE v

RECURSIVE DropTrailingZeros(_)
DropTrailingZeros(t) ==
    IF t # <<>> /\ t[Len(t)] = "0"
    THEN DropTrailingZeros(SubSeq(t, 1, Len(t) - 1))
    ELSE t

\* float(text) succeeds: digits with at most one point and at least one digit
FloatOk(t) ==
    LET p == Split(Unsigned(Strip(t)), ".")
    IN /\ Len(p) \in {1, 2}
       /\ \A n \in 1..Len(p) : AllDigits(p[n])
       /\ \E n \in 1..Len(p) : p[n] # <<>>

\* float(text)
FloatValue(t) ==
    LET s == Strip(t)
        p == Split(Unsigned(s), ".")
    IN [neg |-> IsNegative(s),
        whole |-> DecimalValue(p[1]),
        frac |-> IF Len(p) = 2 THEN DropTrailingZeros(p[2]) ELSE <<>>]

\* bytes.decode("utf-8") succeeds: the atom "<ff>" is a byte that is no UTF-8
DecodeOk(t) == \A n \in 1..Len(t) : t[n] # "<ff>"

\* parse_sensor_line: None for a wrong field count, ValueError raised by
\* int() or float(), else the tuple
parse_sensor_line(line) ==
    LET raw == Split(line, ",")
        parts == [n \in 1..Len(raw) |-> Strip(raw[n])]
    IN IF Len(parts) # 4 THEN [kind |-> "None"]
       ELSE IF ~ (IntOk(parts[2]) /\ FloatOk(parts[3]) /\ FloatOk(parts[4]))
            THEN [kind |-> "ValueError"]
            ELSE [kind |-> "tuple",
                  serial_number |-> parts[1],
                  timestamp |-> IntValue(parts[2]),
                  temperature |-> FloatValue(parts[3]),
                  humidity |-> FloatValue(parts[4])]

----------------------------------------------------------------------------
(* Lists *)

Min(a, b) == IF a < b THEN a ELSE b
Max(a, b) == IF a > b THEN a ELSE b

\* [None] * n
NoneRow(n) == [c \in 1..n |-> None]

\* Python's row[a:b] = vals, a and b 0-based and clipped to the list
SliceAssign(row, a, b, vals) ==
    LET lo == Min(a, Len(row))
        hi == Max(Min(b, Len(row)), lo)
    IN SubSeq(row, 1, lo) \o vals \o SubSeq(row, hi + 1, Len(row))

\* Python's row[n] = v, n 0-based
ItemAssign(row, n, v) == [row EXCEPT ![n + 1] = v]

----------------------------------------------------------------------------
(* The environment: what the devices answer *)

\* what a port answers to "n", stripped: a serial number of the lookup, one
\* that is not in it, or nothing
IdResponses == {"0xEFCF86D7", "0xF030D05B", "0xDEADBEEF", ""}

LineYellow ==
    <<"0xEFCF86D7", ",", " ", "7", ",", "2", ".", "5", ",", "4", "0", "\n">>
LineBlue ==
    <<"0xF030D05B", ",", "9", ",", "3", ",", "4", "1", ".", "0", "\n">>
LineBlank == <<" ", "\n">>
LineComment == <<"#", "x", "\n">>
LineShort == <<"0xF030D05B", ",", "x", ",", "4", "1", "\n">>
LineBadInt == <<"0xEFCF86D7", ",", "7", ".", "5", ",", "2", ",", "4", "\n">>
LineBadFloat == <<"0xF030D05B", ",", "9", ",", "x", ",", "4", "\n">>
LineUndecodable == <<"<ff>", "\n">>

DataLines ==
    {LineYellow, LineBlue, LineBlank, LineComment, LineShort, LineBadInt,
     LineBadFloat, LineUndecodable}

----------------------------------------------------------------------------
(* State *)

NoCancel == "none"

NoExc == [kind |-> "none", at |-> "none"]

Raised(kind, at) == [kind |-> kind, at |-> at]

Ports == 1..Len(adafruit_ports)

N == Len(serial_handles)

Init ==
    /\ pc = "start"
    /\ k = 1
    /\ adafruit_ports \in {[p \in 1..m |-> p] : m \in 0..MaxPorts}
    /\ serial_handles = <<>>
    /\ handle = [p \in Ports |-> "none"]
    /\ closes = [p \in Ports |-> 0]
    /\ color = [p \in Ports |-> "unset"]
    /\ header = <<>>
    /\ file = <<>>
    /\ flushed = 0
    /\ buf = [p \in Ports |-> 0]
    /\ now = 0
    /\ last_update_time = 0
    /\ prev_update_time = 0
    /\ current_time = 0
    /\ exc = NoExc
    /\ sent = [p \in Ports |-> <<>>]
    /\ tickNo = 0
    /\ tickRows = <<>>
    /\ outcome = [p \in Ports |-> "unread"]
    /\ taken = [p \in Ports |-> 0]
    /\ line_read = [p \in Ports |-> <<>>]
    /\ lines_sent = 0
    /\ cancelAt = NoCancel

\* time.sleep: the discrete clock stays or moves on by one
Slept(t) == {t2 \in {t, t + 1} : t2 <= MaxTime}

----------------------------------------------------------------------------
(* main, up to the polling loop *)

\* main, lines 190-194: get_adafruit_ports and the return when there is none
Start ==
    /\ pc = "start"
    /\ pc' = IF adafruit_ports = <<>> THEN "done" ELSE "open"
    /\ k' = 1
    /\ UNCHANGED <<adafruit_ports, serial_handles, handle, closes, color,
                   header, file, flushed, buf, now, last_update_time,
                   current_time, exc, sent, tickNo, tickRows, outcome, taken,
                   line_read, lines_sent, cancelAt, prev_update_time>>

\* MySerial.setDeviceColorBySerialNumber: the label, "unknown" on KeyError
DeviceColor(serial_number) ==
    IF serial_number \in DOMAIN serial_number_to_color
    THEN serial_number_to_color[serial_number]
    ELSE "unknown"

\* OpenPort that leaves the for loop at the first device without a serial
\* number
OpenPort_StopAtNoSerial ==
    /\ pc = "open"
    /\ k <= Len(adafruit_ports)
    /\ \E how \in {"open_error", "drain_error", "answer"},
          answer \in IdResponses :
        /\ how # "answer" => answer = ""
        /\ handle' =
             [handle EXCEPT ![k] =
                CASE how = "open_error" -> "failed"
                  [] how = "drain_error" -> "open"
                  [] answer = "" -> "closed"
                  [] OTHER -> "open"]
        /\ closes' =
             [closes EXCEPT ![k] =
                IF how = "answer" /\ answer = "" THEN @ + 1 ELSE @]
        /\ sent' =
             [sent EXCEPT ![k] = IF how = "answer" THEN Append(@, "n") ELSE @]
        /\ IF how = "answer" /\ answer # ""
           THEN /\ color' = [color EXCEPT ![k] = DeviceColor(answer)]
                /\ serial_handles' =
                     Append(serial_handles,
                            [port |-> k, serial_number |-> answer])
           ELSE UNCHANGED <<color, serial_handles>>
    /\ k' = IF handle'[k] = "closed" THEN Len(adafruit_ports) + 1 ELSE k + 1
    /\ UNCHANGED <<pc, adafruit_ports, header, file, flushed, buf, now,
                   last_update_time, current_time, exc, tickNo, tickRows,
                   outcome, taken, line_read, lines_sent, cancelAt,
                   prev_update_time>>

\* open_serial_ports, one iteration of the for loop, for port k.
\*   "open_error"  MySerial(...) raises: caught at line 114
\*   "drain_error" empty_serial_buffer raises: caught at line 114, the
\*                 handle stays open
\*   "answer"      get_serial_number returns answer; "" stands for the empty
\*                 line and for the None it returns when readline or decode
\*                 raises, both false at line 107
OpenPort ==
    /\ pc = "open"
    /\ k <= Len(adafruit_ports)
    /\ \E how \in {"open_error", "drain_error", "answer"},
          answer \in IdResponses :
        /\ how # "answer" => answer = ""
        /\ handle' =
             [handle EXCEPT ![k] =
                CASE how = "open_error" -> "failed"
                  [] how = "drain_error" -> "open"
                  [] answer = "" -> "closed"
                  [] OTHER -> "open"]
        /\ closes' =
             [closes EXCEPT ![k] =
                IF how = "answer" /\ answer = "" THEN @ + 1 ELSE @]
        /\ sent' =
             [sent EXCEPT ![k] = IF how = "answer" THEN Append(@, "n") ELSE @]
        /\ IF how = "answer" /\ answer # ""
           THEN /\ color' = [color EXCEPT ![k] = DeviceColor(answer)]
                /\ serial_handles' =
                     Append(serial_handles,
                            [port |-> k, serial_number |-> answer])
           ELSE UNCHANGED <<color, serial_handles>>
    /\ k' = k + 1
    /\ UNCHANGED <<pc, adafruit_ports, header, file, flushed, buf, now,
                   last_update_time, current_time, exc, tickNo, tickRows,
                   outcome, taken, line_read, lines_sent, cancelAt,
                   prev_update_time>>

\* OpenDone that starts the stream before the header exists
OpenDone_StreamFirst ==
    /\ pc = "open"
    /\ k > Len(adafruit_ports)
    /\ pc' = IF serial_handles = <<>> THEN "done" ELSE "stream"
    /\ k' = 1
    /\ UNCHANGED <<adafruit_ports, serial_handles, handle, closes, color,
                   header, file, flushed, buf, now, last_update_time,
                   current_time, exc, sent, tickNo, tickRows, outcome, taken,
                   line_read, lines_sent, cancelAt, prev_update_time>>

\* main, lines 197-200: the return when no port could be opened
OpenDone ==
    /\ pc = "open"
    /\ k > Len(adafruit_ports)
    /\ pc' = IF serial_handles = <<>> THEN "done" ELSE "create_header"
    /\ k' = 1
    /\ UNCHANGED <<adafruit_ports, serial_handles, handle, closes, color,
                   header, file, flushed, buf, now, last_update_time,
                   current_time, exc, sent, tickNo, tickRows, outcome, taken,
                   line_read, lines_sent, cancelAt, prev_update_time>>

\* the two column names create_header appends for one device
HeaderColumns(serial_number) ==
    LET name == serial_number \o "_" \o serial_number_to_color[serial_number]
    IN <<name \o "_temperature (degrees C)", name \o "_humidity (% rH)">>

\* create_header raises KeyError: a serial number is not in the lookup
HeaderKeyError(handles) ==
    \E n \in 1..Len(handles) :
        handles[n].serial_number \notin DOMAIN serial_number_to_color

RECURSIVE create_header(_)
create_header(handles) ==
    IF handles = <<>> THEN <<"timestamp">>
    ELSE create_header(SubSeq(handles, 1, Len(handles) - 1))
         \o HeaderColumns(handles[Len(handles)].serial_number)

\* main, line 202; a KeyError leaves main, outside the try of line 205
CreateHeader ==
    /\ pc = "create_header"
    /\ IF HeaderKeyError(serial_handles)
       THEN /\ exc' = Raised("KeyError", "create_header")
            /\ pc' = "done"
            /\ UNCHANGED header
       ELSE /\ header' = create_header(serial_handles)
            /\ pc' = "write_header"
            /\ UNCHANGED exc
    /\ UNCHANGED <<k, adafruit_ports, serial_handles, handle, closes, color,
                   file, flushed, buf, now, last_update_time, current_time,
                   sent, tickNo, tickRows, outcome, taken, line_read,
                   lines_sent, cancelAt, prev_update_time>>

\* main, line 203: write_csv_header; open() may raise OSError, which leaves
\* main outside the try
WriteHeader ==
    /\ pc = "write_header"
    /\ \E fails \in BOOLEAN :
        IF fails
        THEN /\ exc' = Raised("OSError", "write_header")
             /\ pc' = "done"
             /\ UNCHANGED <<file, flushed>>
        ELSE /\ file' = <<header>>
             /\ flushed' = 1
             /\ pc' = "stream"
             /\ UNCHANGED exc
    /\ k' = 1
    /\ UNCHANGED <<adafruit_ports, serial_handles, handle, closes, color,
                   header, buf, now, last_update_time, current_time, sent,
                   tickNo, tickRows, outcome, taken, line_read, lines_sent,
                   cancelAt, prev_update_time>>

\* request_sensor_stream, one iteration: write "s", sleep, drain the buffer;
\* an error of the write or of the drain leaves main outside the try
Stream ==
    /\ pc = "stream"
    /\ k <= N
    /\ LET p == serial_handles[k].port IN
       \E how \in {"ok", "write_error", "drain_error"} :
        /\ sent' = [sent EXCEPT ![p] =
                      IF how = "write_error" THEN @ ELSE Append(@, "s")]
        /\ buf' = [buf EXCEPT ![p] = 0]
        /\ IF how = "ok"
           THEN /\ pc' = IF k = N THEN "log_start" ELSE "stream"
                /\ k' = IF k = N THEN 1 ELSE k + 1
                /\ UNCHANGED exc
           ELSE /\ pc' = "done"
                /\ exc' = Raised("SerialException", "stream")
                /\ UNCHANGED k
    /\ UNCHANGED <<adafruit_ports, serial_handles, handle, closes, color,
                   header, file, flushed, now, last_update_time, current_time,
                   tickNo, tickRows, outcome, taken, line_read, lines_sent,
                   cancelAt, prev_update_time>>

----------------------------------------------------------------------------
(* log_sensor_data *)

\* the positions inside the try of main, lines 205-206
InTry == {"log_start", "poll", "update", "update_sleep", "read", "flush"}

\* lines 144-148: last_update_time and the file opened for appending; an
\* OSError of open() is raised inside the try
LogStart ==
    /\ pc = "log_start"
    /\ last_update_time' = now
    /\ \E fails \in BOOLEAN :
        IF fails
        THEN /\ exc' = Raised("OSError", "log_start")
             /\ pc' = "unwind"
        ELSE /\ pc' = "poll"
             /\ UNCHANGED exc
    /\ k' = 1
    /\ UNCHANGED <<adafruit_ports, serial_handles, handle, closes, color,
                   header, file, flushed, buf, now, current_time, sent,
                   tickNo, tickRows, outcome, taken, line_read, lines_sent,
                   cancelAt, prev_update_time>>

\* line 152: the tick is not due yet
NotDue(current, last, update_interval) == current - last < update_interval

\* lines 151-154: the tick is not due, sleep and look again
PollWait ==
    /\ pc = "poll"
    /\ NotDue(now, last_update_time, SENSOR_READ_INTERVAL)
    /\ current_time' = now
    /\ now' \in Slept(now)
    /\ UNCHANGED <<pc, k, adafruit_ports, serial_handles, handle, closes,
                   color, header, file, flushed, buf, last_update_time, exc,
                   sent, tickNo, tickRows, outcome, taken, line_read,
                   lines_sent, cancelAt, prev_update_time>>

\* TickStart that keeps a fixed schedule: the next tick is due one interval
\* after the time the last one was due, whenever that one started
TickStart_FixedSchedule ==
    /\ pc = "poll"
    /\ ~ NotDue(now, last_update_time, SENSOR_READ_INTERVAL)
    /\ current_time' = now
    /\ last_update_time' = last_update_time + SENSOR_READ_INTERVAL
    /\ pc' = "update"
    /\ k' = 1
    /\ tickNo' = tickNo + 1
    /\ UNCHANGED <<adafruit_ports, serial_handles, handle, closes, color,
                   header, file, flushed, buf, now, exc, sent, tickRows,
                   outcome, taken, line_read, lines_sent, cancelAt,
                   prev_update_time>>

\* lines 151-156: the tick is due and starts
TickStart ==
    /\ pc = "poll"
    /\ ~ NotDue(now, last_update_time, SENSOR_READ_INTERVAL)
    /\ current_time' = now
    /\ last_update_time' = now
    /\ pc' = "update"
    /\ k' = 1
    /\ tickNo' = tickNo + 1
    /\ UNCHANGED <<adafruit_ports, serial_handles, handle, closes, color,
                   header, file, flushed, buf, now, exc, sent, tickRows,
                   outcome, taken, line_read, lines_sent, cancelAt,
                   prev_update_time>>

\* request_sensor_update, one iteration: write "u"; an error of the write is
\* not caught and leaves log_sensor_data
Update ==
    /\ pc = "update"
    /\ k <= N
    /\ LET p == serial_handles[k].port IN
       \E fails \in BOOLEAN :
        IF fails
        THEN /\ exc' = Raised("SerialException", "update")
             /\ pc' = "unwind"
             /\ k' = 1
             /\ UNCHANGED sent
        ELSE /\ sent' = [sent EXCEPT ![p] = Append(@, "u")]
             /\ pc' = IF k = N THEN "update_sleep" ELSE "update"
             /\ k' = IF k = N THEN 1 ELSE k + 1
             /\ UNCHANGED exc
    /\ UNCHANGED <<adafruit_ports, serial_handles, handle, closes, color,
                   header, file, flushed, buf, now, last_update_time,
                   current_time, tickNo, tickRows, outcome, taken, line_read,
                   lines_sent, cancelAt, prev_update_time>>

\* a device that got "u" answers with a line while the host sleeps; what
\* the line holds is drawn when the host reads it
DeviceRespond ==
    /\ pc = "update_sleep"
    /\ lines_sent < MaxSent
    /\ \E n \in 1..N :
        buf' = [buf EXCEPT ![serial_handles[n].port] = @ + 1]
    /\ lines_sent' = lines_sent + 1
    /\ UNCHANGED <<pc, k, adafruit_ports, serial_handles, handle, closes,
                   color, header, file, flushed, now, last_update_time,
                   current_time, exc, sent, tickNo, tickRows, outcome, taken,
                   line_read, cancelAt, prev_update_time>>

\* request_sensor_update, line 139: time.sleep(0.1)
UpdateSleep ==
    /\ pc = "update_sleep"
    /\ now' \in Slept(now)
    /\ pc' = "read"
    /\ k' = 1
    /\ UNCHANGED <<adafruit_ports, serial_handles, handle, closes, color,
                   header, file, flushed, buf, last_update_time, current_time,
                   exc, sent, tickNo, tickRows, outcome, taken, line_read,
                   lines_sent, cancelAt, prev_update_time>>

\* line 163 and 165: what the stripped line is before it is parsed
LineClass(line) ==
    IF line = <<>> THEN "blank"
    ELSE IF Head(line) = "#" THEN "comment"
    ELSE "data"

\* RowOf with the slice one cell short, row[i*2+1 : i*2+2]: the two values
\* replace one cell and the row grows
RowOf_ShortSlice(i, hdr, parsed) ==
    SliceAssign(ItemAssign(NoneRow(Len(hdr)), 0, parsed.timestamp),
                i * 2 + 1, i * 2 + 2,
                <<parsed.temperature, parsed.humidity>>)

\* RowOf with the slice one cell to the left, row[2i:2i+2]
RowOf_ShiftedLeft(i, hdr, parsed) ==
    SliceAssign(ItemAssign(NoneRow(Len(hdr)), 0, parsed.timestamp),
                i * 2, i * 2 + 2,
                <<parsed.temperature, parsed.humidity>>)

\* RowOf that writes the row without the device's two values
RowOf_NoValues(i, hdr, parsed) ==
    ItemAssign(NoneRow(Len(hdr)), 0, parsed.timestamp)

\* RowOf without the device's offset, row[1:3] for every device
RowOf_NoOffset(i, hdr, parsed) ==
    SliceAssign(ItemAssign(NoneRow(Len(hdr)), 0, parsed.timestamp),
                1, 3,
                <<parsed.temperature, parsed.humidity>>)

\* lines 159 and 172-174: the row of the device at 0-based position i
RowOf(i, hdr, parsed) ==
    SliceAssign(ItemAssign(NoneRow(Len(hdr)), 0, parsed.timestamp),
                i * 2 + 1, i * 2 + 3,
                <<parsed.temperature, parsed.humidity>>)

\* lines 160-178 for a line taken from the buffer: what the iteration gives
ReadResult(line) ==
    IF ~ DecodeOk(line) THEN "decode_error"
    ELSE LET text == Strip(line) IN
         IF LineClass(text) # "data" THEN LineClass(text)
         ELSE LET parsed == parse_sensor_line(text) IN
              CASE parsed.kind = "None" -> "malformed"
                [] parsed.kind = "ValueError" -> "value_error"
                [] OTHER -> "logged"

\* Read that takes every buffered line of the device, not one
Read_WholeBuffer ==
    /\ pc = "read"
    /\ k <= N
    /\ LET p == serial_handles[k].port IN
       \E how \in {"in_waiting_error", "read_error", "read"},
          line \in DataLines :
        /\ how = "read_error" => buf[p] # 0
        /\ how # "read" \/ buf[p] = 0 => line = LineBlank
        /\ CASE how = "in_waiting_error" ->
                  /\ exc' = Raised("SerialException", "read")
                  /\ pc' = "unwind"
                  /\ k' = 1
                  /\ outcome' = [outcome EXCEPT ![p] = "in_waiting_error"]
                  /\ UNCHANGED <<buf, taken, line_read, file, tickRows>>
             [] how = "read_error" ->
                  /\ outcome' = [outcome EXCEPT ![p] = "read_error"]
                  /\ pc' = IF k = N THEN "flush" ELSE "read"
                  /\ k' = IF k = N THEN 1 ELSE k + 1
                  /\ UNCHANGED <<buf, taken, line_read, file, tickRows, exc>>
             [] how = "read" /\ buf[p] = 0 ->
                  /\ outcome' = [outcome EXCEPT ![p] = "nothing"]
                  /\ pc' = IF k = N THEN "flush" ELSE "read"
                  /\ k' = IF k = N THEN 1 ELSE k + 1
                  /\ UNCHANGED <<buf, taken, line_read, file, tickRows, exc>>
             [] OTHER ->
                  LET result == ReadResult(line)
                      row == RowOf(k - 1, header,
                                   parse_sensor_line(Strip(line)))
                  IN /\ buf' = [buf EXCEPT ![p] = 0]
                     /\ taken' = [taken EXCEPT ![p] = @ + buf[p]]
                     /\ line_read' = [line_read EXCEPT ![p] = line]
                     /\ outcome' = [outcome EXCEPT ![p] = result]
                     /\ IF result = "logged"
                        THEN /\ file' = Append(file, row)
                             /\ tickRows' = Append(tickRows, row)
                        ELSE UNCHANGED <<file, tickRows>>
                     /\ pc' = IF k = N THEN "flush" ELSE "read"
                     /\ k' = IF k = N THEN 1 ELSE k + 1
                     /\ UNCHANGED exc
    /\ UNCHANGED <<adafruit_ports, serial_handles, handle, closes, color,
                   header, flushed, now, last_update_time, current_time, sent,
                   tickNo, lines_sent, cancelAt, prev_update_time>>

\* lines 158-178, one iteration of the for loop, for the device at k.
\*   "in_waiting_error" ser.in_waiting raises outside the try of line 161:
\*                      the error leaves log_sensor_data
\*   "read_error"       ser.readline raises: caught at line 177
\*   "read"             the buffer is looked at and, if not empty, read
Read ==
    /\ pc = "read"
    /\ k <= N
    /\ LET p == serial_handles[k].port IN
       \E how \in {"in_waiting_error", "read_error", "read"},
          line \in DataLines :
        /\ how = "read_error" => buf[p] # 0
        /\ how # "read" \/ buf[p] = 0 => line = LineBlank
        /\ CASE how = "in_waiting_error" ->
                  /\ exc' = Raised("SerialException", "read")
                  /\ pc' = "unwind"
                  /\ k' = 1
                  /\ outcome' = [outcome EXCEPT ![p] = "in_waiting_error"]
                  /\ UNCHANGED <<buf, taken, line_read, file, tickRows>>
             [] how = "read_error" ->
                  /\ outcome' = [outcome EXCEPT ![p] = "read_error"]
                  /\ pc' = IF k = N THEN "flush" ELSE "read"
                  /\ k' = IF k = N THEN 1 ELSE k + 1
                  /\ UNCHANGED <<buf, taken, line_read, file, tickRows, exc>>
             [] how = "read" /\ buf[p] = 0 ->
                  /\ outcome' = [outcome EXCEPT ![p] = "nothing"]
                  /\ pc' = IF k = N THEN "flush" ELSE "read"
                  /\ k' = IF k = N THEN 1 ELSE k + 1
                  /\ UNCHANGED <<buf, taken, line_read, file, tickRows, exc>>
             [] OTHER ->
                  LET result == ReadResult(line)
                      row == RowOf(k - 1, header,
                                   parse_sensor_line(Strip(line)))
                  IN /\ buf' = [buf EXCEPT ![p] = @ - 1]
                     /\ taken' = [taken EXCEPT ![p] = @ + 1]
                     /\ line_read' = [line_read EXCEPT ![p] = line]
                     /\ outcome' = [outcome EXCEPT ![p] = result]
                     /\ IF result = "logged"
                        THEN /\ file' = Append(file, row)
                             /\ tickRows' = Append(tickRows, row)
                        ELSE UNCHANGED <<file, tickRows>>
                     /\ pc' = IF k = N THEN "flush" ELSE "read"
                     /\ k' = IF k = N THEN 1 ELSE k + 1
                     /\ UNCHANGED exc
    /\ UNCHANGED <<adafruit_ports, serial_handles, handle, closes, color,
                   header, flushed, now, last_update_time, current_time, sent,
                   tickNo, lines_sent, cancelAt, prev_update_time>>

\* Flush that goes on to the next tick without file.flush()
Flush_NotFlushed ==
    /\ pc = "flush"
    /\ flushed' = flushed
    /\ now' \in Slept(now)
    /\ pc' = "poll"
    /\ tickRows' = <<>>
    /\ outcome' = [p \in Ports |-> "unread"]
    /\ taken' = [p \in Ports |-> 0]
    /\ line_read' = [p \in Ports |-> <<>>]
    /\ prev_update_time' = current_time
    /\ UNCHANGED <<k, adafruit_ports, serial_handles, handle, closes, color,
                   header, file, buf, last_update_time, current_time, exc,
                   sent, tickNo, lines_sent, cancelAt>>

\* lines 179-180: file.flush() and time.sleep(0.05); the tick is over
Flush ==
    /\ pc = "flush"
    /\ flushed' = Len(file)
    /\ now' \in Slept(now)
    /\ pc' = "poll"
    /\ tickRows' = <<>>
    /\ outcome' = [p \in Ports |-> "unread"]
    /\ taken' = [p \in Ports |-> 0]
    /\ line_read' = [p \in Ports |-> <<>>]
    /\ prev_update_time' = current_time
    /\ UNCHANGED <<k, adafruit_ports, serial_handles, handle, closes, color,
                   header, file, buf, last_update_time, current_time, exc,
                   sent, tickNo, lines_sent, cancelAt>>

----------------------------------------------------------------------------
(* The end of main *)

\* Ctrl+C: KeyboardInterrupt is raised where main is.  Inside the try it
\* leaves log_sensor_data and is caught at line 207; anywhere else it
\* leaves main.
Interrupt ==
    /\ pc \notin {"start", "done", "unwind"}
    /\ cancelAt = NoCancel
    /\ cancelAt' = pc
    /\ IF pc \in InTry
       THEN /\ pc' = "unwind"
            /\ UNCHANGED exc
       ELSE /\ pc' = "done"
            /\ exc' = Raised("KeyboardInterrupt", pc)
    /\ k' = 1
    /\ UNCHANGED <<adafruit_ports, serial_handles, handle, closes, color,
                   header, file, flushed, buf, now, last_update_time,
                   current_time, sent, tickNo, tickRows, outcome, taken,
                   line_read, lines_sent, prev_update_time>>

\* an exception leaves log_sensor_data: the with of line 147 closes the
\* file, the locals of the function and its tick in flight are gone, and
\* main goes on at its finally (after the except of line 207)
Unwind ==
    /\ pc = "unwind"
    /\ flushed' = Len(file)
    /\ last_update_time' = 0
    /\ prev_update_time' = 0
    /\ current_time' = 0
    /\ tickRows' = <<>>
    /\ outcome' = [p \in Ports |-> "unread"]
    /\ taken' = [p \in Ports |-> 0]
    /\ line_read' = [p \in Ports |-> <<>>]
    /\ pc' = "finally"
    /\ k' = 1
    /\ UNCHANGED <<adafruit_ports, serial_handles, handle, closes, color,
                   header, file, buf, now, exc, sent, tickNo, lines_sent,
                   cancelAt>>

\* close_serial_ports, one iteration: ser.close(), which drops what is in
\* the input buffer; an error of close is not caught and leaves the for
\* loop and main
Close ==
    /\ pc = "finally"
    /\ k <= N
    /\ LET p == serial_handles[k].port IN
       \E fails \in BOOLEAN :
        /\ closes' = [closes EXCEPT ![p] = @ + 1]
        /\ IF fails
           THEN /\ exc' = Raised("SerialException", "close")
                /\ pc' = "done"
                /\ UNCHANGED <<handle, buf, k>>
           ELSE /\ handle' = [handle EXCEPT ![p] = "closed"]
                /\ buf' = [buf EXCEPT ![p] = 0]
                /\ pc' = IF k = N THEN "done" ELSE "finally"
                /\ k' = IF k = N THEN 1 ELSE k + 1
                /\ UNCHANGED exc
    /\ UNCHANGED <<adafruit_ports, serial_handles, color, header, file,
                   flushed, now, last_update_time, current_time, sent, tickNo,
                   tickRows, outcome, taken, line_read, lines_sent, cancelAt,
                   prev_update_time>>

Next ==
    \/ Start
    \/ OpenPort
    \/ OpenDone
    \/ CreateHeader
    \/ WriteHeader
    \/ Stream
    \/ LogStart
    \/ PollWait
    \/ TickStart
    \/ Update
    \/ DeviceRespond
    \/ UpdateSleep
    \/ Read
    \/ Flush
    \/ Interrupt
    \/ Unwind
    \/ Close

Spec == Init /\ [][Next]_vars

\* The run seen by the clock alone: the clock starts one unit before its
\* origin, which leaves room for a tick that runs longer than the interval
\* and the tick after it, and the devices stay silent.
InitClock ==
    /\ pc = "start"
    /\ k = 1
    /\ adafruit_ports \in {[p \in 1..m |-> p] : m \in 0..MaxPorts}
    /\ serial_handles = <<>>
    /\ handle = [p \in Ports |-> "none"]
    /\ closes = [p \in Ports |-> 0]
    /\ color = [p \in Ports |-> "unset"]
    /\ header = <<>>
    /\ file = <<>>
    /\ flushed = 0
    /\ buf = [p \in Ports |-> 0]
    /\ now = -1
    /\ last_update_time = 0
    /\ prev_update_time = 0
    /\ current_time = 0
    /\ exc = NoExc
    /\ sent = [p \in Ports |-> <<>>]
    /\ tickNo = 0
    /\ tickRows = <<>>
    /\ outcome = [p \in Ports |-> "unread"]
    /\ taken = [p \in Ports |-> 0]
    /\ line_read = [p \in Ports |-> <<>>]
    /\ lines_sent = 0
    /\ cancelAt = NoCancel

NextClock ==
    \/ Start
    \/ OpenPort
    \/ OpenDone
    \/ CreateHeader
    \/ WriteHeader
    \/ Stream
    \/ LogStart
    \/ PollWait
    \/ TickStart
    \/ Update
    \/ UpdateSleep
    \/ Read
    \/ Flush
    \/ Interrupt
    \/ Unwind
    \/ Close

SpecClock == InitClock /\ [][NextClock]_vars

----------------------------------------------------------------------------
(* Properties *)

\* the port of the device at position n of serial_handles
PortOf(n) == serial_handles[n].port

\* the two cells of a row that belong to the device at position n
CellsOf(row, n) == <<row[2 * n], row[2 * n + 1]>>

\* the reading in the line the device at position n read in the tick
ReadingOf(n) == parse_sensor_line(Strip(line_read[PortOf(n)]))

ValuesOf(n) == <<ReadingOf(n).temperature, ReadingOf(n).humidity>>

\* how many times the command c was written to port p
CountOf(p, c) == Cardinality({n \in 1..Len(sent[p]) : sent[p][n] = c})

\* a read that gave no valid line: nothing buffered, blank, comment,
\* malformed, or an error of the read or of the decoding
NoData ==
    {"nothing", "blank", "comment", "malformed", "value_error",
     "read_error", "decode_error"}

\* C1 (as claimed): the readings of one tick are combined into one row: a
\* tick writes at most one row, and when two devices both gave a valid
\* reading a row of the tick holds the values of both at their columns.
C1_OneCombinedRowPerTick ==
    /\ Len(tickRows) <= 1
    /\ \A a, b \in 1..N :
        a # b /\ outcome[PortOf(a)] = "logged" /\ outcome[PortOf(b)] = "logged"
        => \E r \in 1..Len(tickRows) :
            /\ CellsOf(tickRows[r], a) = ValuesOf(a)
            /\ CellsOf(tickRows[r], b) = ValuesOf(b)

\* C2: every row written to the file, the header row and the data rows, has
\* 1 + 2*N cells, N the number of devices in serial_handles.
C2_RowLengthIsHeaderLength ==
    \A r \in 1..Len(file) :
        /\ Len(file[r]) = 1 + 2 * N
        /\ Len(file[r]) = Len(header)

C2_Witness ==
    /\ N = 2
    /\ Len(file) >= 3
    /\ \E r \in 2..Len(file) : CellsOf(file[r], 2) # <<None, None>>

\* C3 (as claimed): when main has ended, every session of serial_handles had
\* its handle closed exactly once, whichever way main ended after the
\* identification: Ctrl+C in the loop, an error leaving the loop, an error
\* between the identification and the loop.
C3_EverySessionClosedOnce ==
    pc = "done" /\ exc.at # "close" /\ cancelAt \in InTry \cup {"none"}
    => \A n \in 1..N : closes[PortOf(n)] = 1 /\ handle[PortOf(n)] = "closed"

\* C4 (as claimed): an error of one device in a tick, of the write of the
\* update command or of the check of the buffer or of the read, never ends
\* the loop: no exception raised there is in flight.
C4_DeviceErrorStaysInTick == exc.at \notin {"update", "read"}

\* C5 (as claimed): a device whose serial number is not in the lookup is
\* labelled "unknown" and the run goes on to the header with two columns
\* for it: header creation never raises.
C5_UnknownSerialProceeds ==
    /\ \A n \in 1..N :
        serial_handles[n].serial_number \notin DOMAIN serial_number_to_color
        => color[PortOf(n)] = "unknown"
    /\ exc.kind # "KeyError"

\* C6 (as claimed): when Ctrl+C arrives while a tick is in flight, after
\* the update commands and before the flush, the tick is completed: every
\* device is read before the loop stops.
C6_TickInFlightCompletes ==
    pc = "unwind" /\ cancelAt \in {"update_sleep", "read"}
    => \A n \in 1..N : outcome[PortOf(n)] # "unread"

\* C7 (as claimed): the first cell of every row of a tick is the wall-clock
\* time of the tick, current_time.
C7_FirstCellIsTickTime ==
    \A r \in 1..Len(tickRows) : tickRows[r][1] = current_time

C9_ParserNeverRaises ==
    \A p \in Ports :
        line_read[p] # <<>> /\ DecodeOk(line_read[p])
        => parse_sensor_line(Strip(line_read[p])).kind # "ValueError"

\* C10 (as claimed): once close_serial_ports has started, close is called on
\* every session, and an error of a close does not leave main.
C10_CloseFailureDoesNotStopClosing ==
    /\ exc.at # "close"
    /\ pc = "done" /\ cancelAt # "finally"
       /\ (\E n \in 1..N : closes[PortOf(n)] > 0)
       => \A n \in 1..N : closes[PortOf(n)] > 0

\* C11 (as claimed): a parsed line whose serial field is not the serial
\* number of the session it was read from is never written: every reading
\* that was logged carries the serial number of its session.
C11_MismatchedSerialNeverLogged ==
    \A n \in 1..N :
        outcome[PortOf(n)] = "logged"
        => ReadingOf(n).serial_number = <<serial_handles[n].serial_number>>

\* C14 (as claimed): when identification leaves no active session, main
\* returns before streaming: no header, no start or update command, no
\* tick, and no handle left open.
C14_EmptyActiveSetLeavesNothingOpen ==
    pc = "done" /\ serial_handles = <<>> /\ cancelAt = NoCancel
    => /\ header = <<>>
       /\ file = <<>>
       /\ tickNo = 0
       /\ \A p \in Ports :
            /\ \A c \in 1..Len(sent[p]) : sent[p][c] = "n"
            /\ handle[p] # "open"

\* C20 (as claimed): when open_serial_ports has finished, every handle it
\* opened is held by an active session or has been closed.
C20_OpenedHandleIsActiveOrClosed ==
    pc \notin {"start", "open"}
    => \A p \in Ports :
        handle[p] = "open" /\ closes[p] = 0
        => \E n \in 1..N : PortOf(n) = p

C13_NoSerialExcludesOnlyThatDevice ==
    \A p \in Ports :
        handle[p] = "closed" /\ (\A n \in 1..N : PortOf(n) # p)
        => /\ sent[p] = <<"n">>
           /\ closes[p] = 1
           /\ header # <<>> => Len(header) = 1 + 2 * N
           /\ pc \notin {"start", "open"} /\ cancelAt # "open"
              => \A q \in Ports : q > p => handle[q] # "none"

C13_Witness ==
    /\ pc = "flush"
    /\ handle = <<"closed", "open">>
    /\ N = 1
    /\ PortOf(1) = 2
    /\ sent[2] = <<"n", "s", "u">>
    /\ sent[1] = <<"n">>

\* C15: every data row of the file has a temperature or humidity cell that
\* is not empty, and a tick in which no device gave a valid reading has
\* written no row.
C15_RowOnlyWithData ==
    /\ \A r \in 2..Len(file) : \E c \in 2..Len(file[r]) : file[r][c] # None
    /\ (\A n \in 1..N : outcome[PortOf(n)] # "logged") => tickRows = <<>>

C15_Witness ==
    /\ pc = "flush"
    /\ tickNo = 2
    /\ N = 2
    /\ outcome[PortOf(1)] = "malformed"
    /\ outcome[PortOf(2)] = "nothing"
    /\ tickRows = <<>>
    /\ Len(file) = 2

\* C16: rows that are not flushed yet exist only while the devices of a
\* tick are being read, and they are the rows of that tick: when the update
\* commands of a tick are sent every row of the file has been flushed.
C16_FlushedBeforeNextUpdate ==
    /\ flushed <= Len(file)
    /\ flushed < Len(file)
       => /\ pc \in {"read", "flush", "unwind"}
          /\ SubSeq(file, flushed + 1, Len(file)) = tickRows

C16_Witness ==
    /\ pc = "update"
    /\ tickNo = 2
    /\ Len(file) = 3
    /\ flushed = 3
    /\ \E p \in Ports : CountOf(p, "u") = 1

C17_TicksAtLeastIntervalApart ==
    pc \in {"update", "update_sleep", "read", "flush"} /\ tickNo >= 2
    => /\ last_update_time = current_time
       /\ current_time - prev_update_time >= SENSOR_READ_INTERVAL

\* the tick before this one ran longer than the interval, and this one
\* started when it had ended
C17_Witness ==
    /\ pc = "update"
    /\ tickNo = 2
    /\ current_time = now
    /\ current_time - prev_update_time > SENSOR_READ_INTERVAL


====
